---- MODULE Spec2Model ----
(***************************************************************************)
(* A model of client/pyre.py: the configuration resolver with its          *)
(* recent-roots fallback (_create_configuration_with_retry), the command   *)
(* lifecycle runner (run_pyre_command with _log_statistics), and the       *)
(* top-level dispatch (main and the command entry points).                 *)
(*                                                                         *)
(* Collaborators whose code is outside this file (create_configuration,    *)
(* the recently-used cache, the prompt, the Command object, the statistics *)
(* logger) are calls whose outcome is drawn nondeterministically: a value  *)
(* of the type the caller uses, or a raised exception.                     *)
(***************************************************************************)
EXTENDS Naturals, Sequences, FiniteSets, TLC

\* ------------------------------------------------------------------ bounds

\* Local roots are 1..MaxRoots; source directories 1..MaxDirs; targets
\* 1..MaxTargets.
MaxRoots == 2
MaxDirs == 1
MaxTargets == 1

None == "None"

\* Names for the local roots, of which the first MaxRoots are in use.
RootNames == <<"/repo/a", "/repo/b", "/repo/c", "/repo/d">>
Roots == {RootNames[i] : i \in 1..MaxRoots}
Dirs == 1..MaxDirs
Targets == 1..MaxTargets

\* ---------------------------------------------------------------- exit codes

SUCCESS == "SUCCESS"
FAILURE == "FAILURE"
BUCK_ERROR == "BUCK_ERROR"
CONFIGURATION_ERROR == "CONFIGURATION_ERROR"

ExitCode == {SUCCESS, FAILURE, BUCK_ERROR, CONFIGURATION_ERROR}

\* ---------------------------------------------------------------- exceptions

\* The exception classes the handlers of this file name, one other
\* Exception, and one BaseException that no handler names.
BuckException == "BuckException"
EnvironmentException == "EnvironmentException"
ClientException == "ClientException"
InvalidConfiguration == "InvalidConfiguration"
ClickException == "ClickException"
OtherException == "RuntimeError"
KeyboardInterrupt == "KeyboardInterrupt"
SystemExit == "SystemExit"

ExceptionTypes ==
    {BuckException, EnvironmentException, ClientException, InvalidConfiguration,
     ClickException, OtherException, KeyboardInterrupt, SystemExit}

\* isinstance(error, Exception): KeyboardInterrupt and SystemExit derive from
\* BaseException only.
IsException(e) == e.type \notin {KeyboardInterrupt, SystemExit}

\* Messages a collaborator's exception may carry; str(error) may be empty.
CollaboratorMessages == {"", "query failed"}

\* What a collaborator may raise.
Raisable == [type : ExceptionTypes, msg : CollaboratorMessages]

NoException == [type |-> None, msg |-> ""]

\* Texts held in client_exception_message: str(error) or a formatted trace.
EmptyText == [kind |-> "str", of |-> ""]
str(e) == [kind |-> "str", of |-> e.msg]
\* traceback.format_exc(): never empty, names the exception.
format_exc(e) == [kind |-> "traceback", of |-> e.type]
\* len(text) > 0
NonEmpty(text) == text # EmptyText

\* ------------------------------------------------------------------ resolver

error_message == "No buck targets or source directories to analyze."
cannot_determine == "Cannot determine which recent local root to rerun. "

\* CommandArguments: the fields the resolver reads or overrides.
CommandArguments ==
    [local_configuration : Roots \cup {None},
     source_directories : SUBSET Dirs,
     targets : SUBSET Targets,
     noninteractive : BOOLEAN]

\* A rerun under the arguments as they were: the selected root is dropped.
replace_nothing(args, root) == args

\* dataclasses.replace(arguments, local_configuration=root)
replace_local_configuration(args, root) ==
    [args EXCEPT !.local_configuration = root]

\* What create_configuration may return for the given arguments: the local
\* root is the one the arguments name (any root found, or none, when they
\* name none); the source directories and targets are those the arguments
\* give, and otherwise whatever the configuration files hold; the logger may
\* or may not be designated.
create_configuration(args) ==
    [local_root : IF args.local_configuration = None
                  THEN Roots \cup {None}
                  ELSE {args.local_configuration},
     source_directories : IF args.source_directories # {}
                          THEN {args.source_directories}
                          ELSE SUBSET Dirs,
     targets : IF args.targets # {} THEN {args.targets} ELSE SUBSET Targets,
     logger : {None, "logger"}]

\* The value of a configuration variable that holds no Configuration.
NoConfiguration == [none |-> TRUE]

\* The test with "and" for "or".
Actionable_Both(candidate) ==
    /\ Cardinality(candidate.source_directories) > 0
    /\ Cardinality(candidate.targets) > 0

\* len(configuration.source_directories) > 0 or len(configuration.targets) > 0
Actionable(candidate) ==
    \/ Cardinality(candidate.source_directories) > 0
    \/ Cardinality(candidate.targets) > 0

\* What prompt_user_for_local_root may return: one of the roots shown, or None.
prompt_user_for_local_root(local_roots) ==
    {local_roots[i] : i \in 1..Len(local_roots)} \cup {None}

\* The lists Cache(...).get_all_items() may hold: roots without repetition.
CacheContents ==
    {s \in UNION {[1..n -> Roots] : n \in 0..MaxRoots} :
        \A i, j \in 1..Len(s) : i # j => s[i] # s[j]}

VARIABLES
    pc,                 \* position in the program
    entry,              \* the command entry point invoked
    arguments,          \* context.obj["arguments"]
    recent_roots,       \* what the recently-used cache holds
    configuration,      \* the resolver's first candidate
    local_root_for_rerun,
    new_configuration,  \* the resolver's retried candidate
    resolved,           \* the configuration the entry point holds, or None
    buildCalls,         \* each create_configuration call: arguments and result
    cacheReads,         \* calls of Cache(...).get_all_items()
    promptCalls,        \* calls of prompt_user_for_local_root
    log,                \* LOG records, in order
    raised,             \* the exception in flight, or NoException
    guardedFault,       \* what the guarded steps of run_pyre_command raised
    reported,           \* the exit code command.run() reported, or None
    exit_code,          \* run_pyre_command's local
    client_exception_message,
    result,             \* run_pyre_command's local result, or NotRead
    error_text,         \* run_pyre_command's local error_message
    events,             \* calls made on the command and the statistics logger
    telemetry,          \* records handed to log_with_configuration
    returned,           \* run_pyre_command's return value, or None
    return_code         \* main's return value, or None

resolverVars ==
    <<arguments, recent_roots, configuration, local_root_for_rerun,
      new_configuration, resolved, buildCalls, cacheReads, promptCalls>>
runnerVars ==
    <<guardedFault, reported, exit_code, client_exception_message, result,
      error_text, events, telemetry, returned>>
vars ==
    <<pc, entry, resolverVars, log, raised, runnerVars, return_code>>

LogRecord(level, text) == [level |-> level, text |-> text]

\* The local result of run_pyre_command before command.result() is read.
NotRead == [unread |-> TRUE]

\* raise configuration_module.InvalidConfiguration(error_message), when the
\* cache is empty
EmptyCacheError == [type |-> InvalidConfiguration, msg |-> error_message]

\* The failure for no selection raised with the empty-cache message.
NoSelectionError_SameMessage ==
    [type |-> InvalidConfiguration, msg |-> error_message]

\* raise configuration_module.InvalidConfiguration("Cannot determine ...")
NoSelectionError == [type |-> InvalidConfiguration, msg |-> cannot_determine]

\* The failure for a retried candidate that is not actionable raised with
\* the message for no selection.
RetryNotActionableError_OtherMessage ==
    [type |-> InvalidConfiguration, msg |-> cannot_determine]

\* raise configuration_module.InvalidConfiguration(error_message), when the
\* retried candidate is not actionable
RetryNotActionableError == [type |-> InvalidConfiguration, msg |-> error_message]

\* LOG.warning(error_message)
WhyWarning == LogRecord("warning", error_message)

\* The warnings after a selection with the hint left out.
RerunWarnings_NoHint(root) ==
    <<LogRecord("warning", <<"Restarting", root>>)>>

\* LOG.warning("Restarting pyre under local root ..."), then
\* LOG.warning("Hint: To avoid this prompt, run `pyre -l <root>` ...")
RerunWarnings(root) ==
    <<LogRecord("warning", <<"Restarting", root>>),
      LogRecord("warning", <<"Hint", root>>)>>

\* One call of configuration_module.create_configuration, as recorded.
BuildCall(args, built) == [arguments |-> args, result |-> built]

\* ------------------------------------------ _create_configuration_with_retry

\* configuration = create_configuration(arguments, base_directory)
CreateFirst ==
    /\ pc = "retry_create"
    /\ \/ \E c \in create_configuration(arguments) :
            /\ configuration' = c
            /\ buildCalls' = Append(buildCalls, BuildCall(arguments, c))
            /\ pc' = "retry_check"
            /\ UNCHANGED raised
       \/ \E e \in Raisable :
            /\ raised' = e
            /\ buildCalls' = Append(buildCalls, BuildCall(arguments, NoConfiguration))
            /\ pc' = "resolve_raised"
            /\ UNCHANGED configuration
    /\ UNCHANGED <<entry, arguments, recent_roots, local_root_for_rerun,
                   new_configuration, resolved, cacheReads, promptCalls, log,
                   runnerVars, return_code>>

\* if len(source_directories) > 0 or len(targets) > 0: return configuration
CheckFirst ==
    /\ pc = "retry_check"
    /\ IF Actionable(configuration)
       THEN /\ resolved' = configuration
            /\ pc' = "resolved"
       ELSE /\ pc' = "retry_cache"
            /\ UNCHANGED resolved
    /\ UNCHANGED <<entry, arguments, recent_roots, configuration,
                   local_root_for_rerun, new_configuration, buildCalls,
                   cacheReads, promptCalls, log, raised, runnerVars, return_code>>

\* recently_used_local_roots = Cache(dot_pyre_directory).get_all_items();
\* an empty list raises InvalidConfiguration(error_message), otherwise
\* LOG.warning(error_message).
ReadCache ==
    /\ pc = "retry_cache"
    /\ cacheReads' = cacheReads + 1
    /\ IF Len(recent_roots) = 0
       THEN /\ raised' = EmptyCacheError
            /\ pc' = "resolve_raised"
            /\ UNCHANGED log
       ELSE /\ log' = Append(log, WhyWarning)
            /\ pc' = "retry_prompt"
            /\ UNCHANGED raised
    /\ UNCHANGED <<entry, arguments, recent_roots, configuration,
                   local_root_for_rerun, new_configuration, resolved, buildCalls,
                   promptCalls, runnerVars, return_code>>

\* The prompt; no selection raises InvalidConfiguration("Cannot determine ...").
Prompt ==
    /\ pc = "retry_prompt"
    /\ promptCalls' = promptCalls + 1
    /\ \E selection \in prompt_user_for_local_root(recent_roots) :
        /\ local_root_for_rerun' = selection
        /\ IF selection = None
           THEN /\ raised' = NoSelectionError
                /\ pc' = "resolve_raised"
           ELSE /\ pc' = "retry_rerun"
                /\ UNCHANGED raised
    /\ UNCHANGED <<entry, arguments, recent_roots, configuration,
                   new_configuration, resolved, buildCalls, cacheReads, log,
                   runnerVars, return_code>>

\* The two warnings, then new_configuration = create_configuration(
\* replace(arguments, local_configuration=local_root_for_rerun), ...)
Rerun ==
    /\ pc = "retry_rerun"
    /\ log' = log \o RerunWarnings(local_root_for_rerun)
    /\ LET new_arguments ==
               replace_local_configuration(arguments, local_root_for_rerun)
       IN \/ \E c \in create_configuration(new_arguments) :
               /\ new_configuration' = c
               /\ buildCalls' = Append(buildCalls, BuildCall(new_arguments, c))
               /\ pc' = "retry_recheck"
               /\ UNCHANGED raised
          \/ \E e \in Raisable :
               /\ raised' = e
               /\ buildCalls' = Append(buildCalls, BuildCall(new_arguments, NoConfiguration))
               /\ pc' = "resolve_raised"
               /\ UNCHANGED new_configuration
    /\ UNCHANGED <<entry, arguments, recent_roots, configuration,
                   local_root_for_rerun, resolved, cacheReads, promptCalls,
                   runnerVars, return_code>>

\* return new_configuration if it is actionable, else raise
\* InvalidConfiguration(error_message).
CheckRerun ==
    /\ pc = "retry_recheck"
    /\ IF Actionable(new_configuration)
       THEN /\ resolved' = new_configuration
            /\ pc' = "resolved"
            /\ UNCHANGED raised
       ELSE /\ raised' = RetryNotActionableError
            /\ pc' = "resolve_raised"
            /\ UNCHANGED resolved
    /\ UNCHANGED <<entry, arguments, recent_roots, configuration,
                   local_root_for_rerun, new_configuration, buildCalls,
                   cacheReads, promptCalls, log, runnerVars, return_code>>

NextResolver ==
    \/ CreateFirst
    \/ CheckFirst
    \/ ReadCache
    \/ Prompt
    \/ Rerun
    \/ CheckRerun

\* A call of _create_configuration_with_retry with any arguments and any
\* cache contents.
InitResolver ==
    /\ pc = "retry_create"
    /\ entry = None
    /\ arguments \in CommandArguments
    /\ recent_roots \in CacheContents
    /\ configuration = NoConfiguration
    /\ local_root_for_rerun = None
    /\ new_configuration = NoConfiguration
    /\ resolved = NoConfiguration
    /\ buildCalls = <<>>
    /\ cacheReads = 0
    /\ promptCalls = 0
    /\ log = <<>>
    /\ raised = NoException
    /\ guardedFault = NoException
    /\ reported = None
    /\ exit_code = None
    /\ client_exception_message = EmptyText
    /\ result = NotRead
    /\ error_text = None
    /\ events = <<>>
    /\ telemetry = <<>>
    /\ returned = None
    /\ return_code = None

SpecResolver == InitResolver /\ [][NextResolver]_vars

\* ----------------------------------------------------------- run_pyre_command

\* The names of the commands run_pyre_command is handed (Command.NAME).
RetryCommands ==
    {"analyze", "check", "incremental", "infer", "profile", "query", "restart",
     "start", "statistics"}
DirectCommands == {"kill", "persistent", "rage", "servers", "stop"}
CommandNames == RetryCommands \cup DirectCommands

\* What command.result() may return: no result, or a result with its error.
NoResult == [none |-> TRUE]
Results == {NoResult, [error |-> None], [error |-> "analysis error"]}

\* error_message = result.error if result else None
result_error(r) == IF r = NoResult THEN None ELSE r.error

\* The except clauses with the isinstance test for BuckException left out.
Classify_NoBuckTest(e) ==
    IF e.type \in {BuckException, EnvironmentException}
    THEN [caught |-> TRUE,
          client_exception_message |-> str(e),
          exit_code |-> FAILURE,
          log |-> <<>>]
    ELSE IF e.type = ClientException
    THEN [caught |-> TRUE,
          client_exception_message |-> str(e),
          exit_code |-> FAILURE,
          log |-> <<>>]
    ELSE IF IsException(e)
    THEN [caught |-> TRUE,
          client_exception_message |-> format_exc(e),
          exit_code |-> FAILURE,
          log |-> <<>>]
    ELSE IF e.type = KeyboardInterrupt
    THEN [caught |-> TRUE,
          client_exception_message |-> EmptyText,
          exit_code |-> SUCCESS,
          log |-> <<LogRecord("warning", "Interrupted by user"),
                    LogRecord("debug", format_exc(e))>>]
    ELSE [caught |-> FALSE]

\* The except clauses of run_pyre_command, first match first: whether the
\* exception is caught, and the locals they assign.
Classify(e) ==
    IF e.type \in {BuckException, EnvironmentException}
    THEN [caught |-> TRUE,
          client_exception_message |-> str(e),
          exit_code |-> IF e.type = BuckException THEN BUCK_ERROR ELSE FAILURE,
          log |-> <<>>]
    ELSE IF e.type = ClientException
    THEN [caught |-> TRUE,
          client_exception_message |-> str(e),
          exit_code |-> FAILURE,
          log |-> <<>>]
    ELSE IF IsException(e)
    THEN [caught |-> TRUE,
          client_exception_message |-> format_exc(e),
          exit_code |-> FAILURE,
          log |-> <<>>]
    ELSE IF e.type = KeyboardInterrupt
    THEN [caught |-> TRUE,
          client_exception_message |-> EmptyText,
          exit_code |-> SUCCESS,
          log |-> <<LogRecord("warning", "Interrupted by user"),
                    LogRecord("debug", format_exc(e))>>]
    ELSE [caught |-> FALSE]

\* The record built with the initial exit code in place of the final one.
StatisticsRecord_InitialExitCode ==
    [exit_code |-> FAILURE,
     root |-> resolved.local_root,
     command |-> entry,
     client_exception |-> client_exception_message,
     error_message |-> error_text]

\* The record _log_statistics hands to log_with_configuration.
StatisticsRecord ==
    [exit_code |-> exit_code,
     root |-> resolved.local_root,
     command |-> entry,
     client_exception |-> client_exception_message,
     error_message |-> error_text]

\* if should_log and configuration and configuration.logger
ShouldLogStatistics == resolved # NoConfiguration /\ resolved.logger # None

\* The finally block with cleanup() called before result() is read.
FinalPhaseNext_CleanupFirst(step) ==
    CASE step = "finally_log" -> "finally_cleanup"
      [] step = "finally_cleanup" -> "finally_result"
      [] step = "finally_result" -> "finally_statistics"
      [] step = "finally_statistics" -> "runner_return"

\* The finally block with the statistics logged before cleanup() is called.
FinalPhaseNext_StatisticsFirst(step) ==
    CASE step = "finally_log" -> "finally_result"
      [] step = "finally_result" -> "finally_statistics"
      [] step = "finally_statistics" -> "finally_cleanup"
      [] step = "finally_cleanup" -> "runner_return"

\* The statements of the finally block, in order: what follows each.
FinalPhaseNext(step) ==
    CASE step = "finally_log" -> "finally_result"
      [] step = "finally_result" -> "finally_cleanup"
      [] step = "finally_cleanup" -> "finally_statistics"
      [] step = "finally_statistics" -> "runner_return"

\* The preamble with the tentative exit code starting as SUCCESS.
Enter_DefaultSuccess ==
    /\ pc = "run_pyre_command"
    /\ client_exception_message' = EmptyText
    /\ exit_code' = SUCCESS
    /\ pc' = "check_nested"
    /\ UNCHANGED <<entry, resolverVars, log, raised, guardedFault, reported,
                   result, error_text, events, telemetry, returned, return_code>>

\* start_time, client_exception_message = "", exit_code = ExitCode.FAILURE
Enter ==
    /\ pc = "run_pyre_command"
    /\ client_exception_message' = EmptyText
    /\ exit_code' = FAILURE
    /\ pc' = "check_nested"
    /\ UNCHANGED <<entry, resolverVars, log, raised, guardedFault, reported,
                   result, error_text, events, telemetry, returned, return_code>>

\* A guarded call that returns nothing: it returns, or raises.
GuardedCall(here, name, next) ==
    /\ pc = here
    /\ events' = Append(events, name)
    /\ \/ /\ pc' = next
          /\ UNCHANGED <<raised, guardedFault>>
       \/ \E e \in Raisable :
          /\ raised' = e
          /\ guardedFault' = e
          /\ pc' = "except"
    /\ UNCHANGED <<entry, resolverVars, log, reported, exit_code,
                   client_exception_message, result, error_text, telemetry, returned,
                   return_code>>

\* configuration_module.check_nested_local_configuration(configuration)
CheckNested == GuardedCall("check_nested", "check_nested", "start_logging")

\* log.start_logging_to_directory(noninteractive, configuration.log_directory)
StartLogging == GuardedCall("start_logging", "start_logging", "run")

\* exit_code = command.run().exit_code()
Run ==
    /\ pc = "run"
    /\ events' = Append(events, "run")
    /\ \/ \E code \in ExitCode :
          /\ exit_code' = code
          /\ reported' = code
          /\ pc' = "finally_log"
          /\ UNCHANGED <<raised, guardedFault>>
       \/ \E e \in Raisable :
          /\ raised' = e
          /\ guardedFault' = e
          /\ pc' = "except"
          /\ UNCHANGED <<exit_code, reported>>
    /\ UNCHANGED <<entry, resolverVars, log, client_exception_message,
                   result, error_text, telemetry, returned, return_code>>

\* The except clauses; an exception none of them names stays in flight
\* through the finally block.
Except ==
    /\ pc = "except"
    /\ LET c == Classify(raised)
       IN IF c.caught
          THEN /\ client_exception_message' = c.client_exception_message
               /\ exit_code' = c.exit_code
               /\ log' = log \o c.log
               /\ raised' = NoException
          ELSE UNCHANGED <<client_exception_message, exit_code, log, raised>>
    /\ pc' = "finally_log"
    /\ UNCHANGED <<entry, resolverVars, guardedFault, reported, result, error_text,
                   events, telemetry, returned, return_code>>

\* if len(client_exception_message) > 0: LOG.error(client_exception_message)
FinallyLog ==
    /\ pc = "finally_log"
    /\ IF NonEmpty(client_exception_message)
       THEN /\ log' = Append(log, LogRecord("error", client_exception_message))
            /\ events' = Append(events, "log_error")
       ELSE UNCHANGED <<log, events>>
    /\ pc' = FinalPhaseNext("finally_log")
    /\ UNCHANGED <<entry, resolverVars, raised, guardedFault, reported,
                   exit_code, client_exception_message, result, error_text, telemetry,
                   returned, return_code>>

\* result = command.result(); error_message = result.error if result else None
FinallyResult ==
    /\ pc = "finally_result"
    /\ events' = Append(events, "result")
    /\ \/ \E r \in Results :
          /\ result' = r
          /\ error_text' = result_error(r)
          /\ pc' = FinalPhaseNext("finally_result")
          /\ UNCHANGED raised
       \/ \E e \in Raisable :
          /\ raised' = e
          /\ pc' = "runner_raised"
          /\ UNCHANGED <<result, error_text>>
    /\ UNCHANGED <<entry, resolverVars, log, guardedFault, reported, exit_code,
                   client_exception_message, telemetry, returned, return_code>>

\* command.cleanup()
FinallyCleanup ==
    /\ pc = "finally_cleanup"
    /\ events' = Append(events, "cleanup")
    /\ \/ /\ pc' = FinalPhaseNext("finally_cleanup")
          /\ UNCHANGED raised
       \/ \E e \in Raisable :
          /\ raised' = e
          /\ pc' = "runner_raised"
    /\ UNCHANGED <<entry, resolverVars, log, guardedFault, reported, exit_code,
                   client_exception_message, result, error_text, telemetry, returned,
                   return_code>>

\* _log_statistics(...): log_with_configuration is called when a logger is
\* designated, and may raise.
FinallyStatistics ==
    /\ pc = "finally_statistics"
    /\ IF ShouldLogStatistics
       THEN /\ telemetry' = Append(telemetry, StatisticsRecord)
            /\ events' = Append(events, "telemetry")
            /\ \/ /\ pc' = FinalPhaseNext("finally_statistics")
                  /\ UNCHANGED raised
               \/ \E e \in Raisable :
                  /\ raised' = e
                  /\ pc' = "runner_raised"
       ELSE /\ pc' = FinalPhaseNext("finally_statistics")
            /\ UNCHANGED <<telemetry, events, raised>>
    /\ UNCHANGED <<entry, resolverVars, log, guardedFault, reported, exit_code,
                   client_exception_message, result, error_text, returned, return_code>>

\* The end of the finally block: an exception still in flight propagates,
\* otherwise return exit_code.
Return ==
    /\ pc = "runner_return"
    /\ IF raised # NoException
       THEN /\ pc' = "runner_raised"
            /\ UNCHANGED returned
       ELSE /\ returned' = exit_code
            /\ pc' = "runner_returned"
    /\ UNCHANGED <<entry, resolverVars, log, raised, guardedFault, reported,
                   exit_code, client_exception_message, result, error_text, events,
                   telemetry, return_code>>

NextRunner ==
    \/ Enter
    \/ CheckNested
    \/ StartLogging
    \/ Run
    \/ Except
    \/ FinallyLog
    \/ FinallyResult
    \/ FinallyCleanup
    \/ FinallyStatistics
    \/ Return

\* A call of run_pyre_command: the entry points hand it the configuration the
\* command was constructed with. The runner reads the command's name, the
\* configuration's logger and its local root; the arguments are those of an
\* invocation that names no root, directory or target, and the command is one
\* that resolves through the fallback or one that does not.
InitRunner ==
    /\ pc = "run_pyre_command"
    /\ entry \in {"check", "kill"}
    /\ arguments = [local_configuration |-> None, source_directories |-> {},
                    targets |-> {}, noninteractive |-> FALSE]
    /\ recent_roots = <<>>
    /\ configuration = NoConfiguration
    /\ local_root_for_rerun = None
    /\ new_configuration = NoConfiguration
    /\ resolved \in {c \in create_configuration(arguments) : c.targets = {}}
    /\ buildCalls = <<BuildCall(arguments, resolved)>>
    /\ cacheReads = 0
    /\ promptCalls = 0
    /\ log = <<>>
    /\ raised = NoException
    /\ guardedFault = NoException
    /\ reported = None
    /\ exit_code = None
    /\ client_exception_message = EmptyText
    /\ result = NotRead
    /\ error_text = None
    /\ events = <<>>
    /\ telemetry = <<>>
    /\ returned = None
    /\ return_code = None

SpecRunner == InitRunner /\ [][NextRunner]_vars

\* ------------------------------------------------- entry points and main

\* Every subcommand resolving through _create_configuration_with_retry.
Dispatch_AllRetry ==
    /\ pc = "main"
    /\ pc' = "retry_create"
    /\ UNCHANGED <<entry, resolverVars, log, raised, runnerVars, return_code>>

\* The group callback has stored the arguments; the invoked subcommand runs.
\* analyze, check, incremental, infer, profile, query, restart, start and
\* statistics resolve through _create_configuration_with_retry; kill,
\* persistent, rage, servers and stop call create_configuration themselves.
Dispatch ==
    /\ pc = "main"
    /\ pc' = IF entry \in RetryCommands THEN "retry_create" ELSE "direct_create"
    /\ UNCHANGED <<entry, resolverVars, log, raised, runnerVars, return_code>>

\* configuration = configuration_module.create_configuration(
\*     command_argument, Path("."))
DirectCreate ==
    /\ pc = "direct_create"
    /\ \/ \E c \in create_configuration(arguments) :
            /\ resolved' = c
            /\ buildCalls' = Append(buildCalls, BuildCall(arguments, c))
            /\ pc' = "resolved"
            /\ UNCHANGED raised
       \/ \E e \in Raisable :
            /\ raised' = e
            /\ buildCalls' = Append(buildCalls, BuildCall(arguments, NoConfiguration))
            /\ pc' = "resolve_raised"
            /\ UNCHANGED resolved
    /\ UNCHANGED <<entry, arguments, recent_roots, configuration,
                   local_root_for_rerun, new_configuration, cacheReads,
                   promptCalls, log, runnerVars, return_code>>

\* return run_pyre_command(commands.X(..., configuration=configuration),
\*                         configuration, noninteractive)
ConstructCommand ==
    /\ pc = "resolved"
    /\ pc' = "run_pyre_command"
    /\ UNCHANGED <<entry, resolverVars, log, raised, runnerVars, return_code>>

\* return_code = pyre(argv, ...); return return_code
MainReturn ==
    /\ pc = "runner_returned"
    /\ return_code' = returned
    /\ pc' = "exited"
    /\ UNCHANGED <<entry, resolverVars, log, raised, runnerVars>>

\* The except clauses of main with the clause for InvalidConfiguration left
\* out.
MainClassify_NoConfigurationClause(e) ==
    IF e.type = EnvironmentException
    THEN [caught |-> TRUE, return_code |-> FAILURE,
          log |-> <<LogRecord("error", str(e))>>]
    ELSE IF e.type = ClickException
    THEN [caught |-> TRUE, return_code |-> FAILURE, log |-> <<>>]
    ELSE [caught |-> FALSE]

\* The except clauses of main, first match first: whether the exception is
\* caught, the code main returns and what it logs.
MainClassify(e) ==
    IF e.type = EnvironmentException
    THEN [caught |-> TRUE, return_code |-> FAILURE,
          log |-> <<LogRecord("error", str(e))>>]
    ELSE IF e.type = InvalidConfiguration
    THEN [caught |-> TRUE, return_code |-> CONFIGURATION_ERROR,
          log |-> <<LogRecord("error", str(e))>>]
    ELSE IF e.type = ClickException
    THEN [caught |-> TRUE, return_code |-> FAILURE, log |-> <<>>]
    ELSE [caught |-> FALSE]

\* An exception leaves pyre(...): a clause of main catches it and main returns
\* the clause's code, or the exception leaves main.
MainExcept ==
    /\ pc \in {"resolve_raised", "runner_raised"}
    /\ LET c == MainClassify(raised)
       IN IF c.caught
          THEN /\ log' = log \o c.log
               /\ return_code' = c.return_code
               /\ raised' = NoException
               /\ pc' = "exited"
          ELSE /\ pc' = "main_raised"
               /\ UNCHANGED <<log, raised, return_code>>
    /\ UNCHANGED <<entry, resolverVars, runnerVars>>

Next ==
    \/ Dispatch
    \/ DirectCreate
    \/ ConstructCommand
    \/ MainReturn
    \/ MainExcept
    \/ NextResolver
    \/ NextRunner

\* An invocation of main with a subcommand: `pyre -l <root> <command>`. The
\* arguments name the first root and no directory or target, and the cache is
\* empty or holds the last root.
Init ==
    /\ pc = "main"
    /\ entry \in CommandNames
    /\ arguments = [local_configuration |-> RootNames[1],
                    source_directories |-> {}, targets |-> {},
                    noninteractive |-> FALSE]
    /\ recent_roots \in {<<>>, <<RootNames[MaxRoots]>>}
    /\ configuration = NoConfiguration
    /\ local_root_for_rerun = None
    /\ new_configuration = NoConfiguration
    /\ resolved = NoConfiguration
    /\ buildCalls = <<>>
    /\ cacheReads = 0
    /\ promptCalls = 0
    /\ log = <<>>
    /\ raised = NoException
    /\ guardedFault = NoException
    /\ reported = None
    /\ exit_code = None
    /\ client_exception_message = EmptyText
    /\ result = NotRead
    /\ error_text = None
    /\ events = <<>>
    /\ telemetry = <<>>
    /\ returned = None
    /\ return_code = None

Spec == Init /\ [][Next]_vars

\* ------------------------------------------------- properties of the runner

\* The number of times x occurs in the sequence s.
Count(s, x) == Cardinality({i \in 1..Len(s) : s[i] = x})

\* s is an initial part of t.
IsPrefix(s, t) == Len(s) <= Len(t) /\ \A i \in 1..Len(s) : s[i] = t[i]

IsFinalEvent(x) == x \in {"log_error", "result", "cleanup", "telemetry"}

\* The calls of the final phase, in the order they were made.
FinalEvents == SelectSeq(events, IsFinalEvent)

\* run_pyre_command has ended: it returned, or an exception left it.
RunnerEnded == pc \in {"runner_returned", "runner_raised"}

\* C1: whenever run_pyre_command returns, the exit code it returns is the one
\* the outcome of the guarded steps selects, first matching rule first: a buck
\* exception BUCK_ERROR, an environment exception FAILURE, a client exception
\* FAILURE, any other Exception FAILURE, a KeyboardInterrupt SUCCESS, and with
\* nothing raised the exit code command.run() reported.
C1_ExitCodeByOutcome ==
    pc = "runner_returned" =>
        /\ guardedFault.type = BuckException => returned = BUCK_ERROR
        /\ guardedFault.type = EnvironmentException => returned = FAILURE
        /\ guardedFault.type = ClientException => returned = FAILURE
        /\ guardedFault.type \in {InvalidConfiguration, ClickException,
                                  OtherException}
              => returned = FAILURE
        /\ guardedFault.type = KeyboardInterrupt => returned = SUCCESS
        /\ guardedFault = NoException
              => reported \in ExitCode /\ returned = reported
        /\ guardedFault # NoException /\ reported = None
              => returned \in {BUCK_ERROR, FAILURE, SUCCESS}
        /\ guardedFault.type # SystemExit

\* A buck exception "query failed" raised by command.run() was returned as
\* BUCK_ERROR after cleanup.
C1_Witness ==
    /\ pc = "runner_returned"
    /\ guardedFault = [type |-> BuckException, msg |-> "query failed"]
    /\ Count(events, "run") = 1
    /\ Count(events, "cleanup") = 1
    /\ returned = BUCK_ERROR

\* C2: on every exit path of run_pyre_command, command.cleanup() has been
\* called exactly once.
C2_CleanupExactlyOnce ==
    RunnerEnded => Count(events, "cleanup") = 1

FinalPhaseOrder ==
    (IF NonEmpty(client_exception_message) THEN <<"log_error">> ELSE <<>>)
    \o <<"result", "cleanup">>
    \o (IF ShouldLogStatistics THEN <<"telemetry">> ELSE <<>>)

C4_NoFaultPropagates ==
    pc # "runner_raised"

\* C5: a run_pyre_command execution that has ended emitted exactly one
\* telemetry record if the configuration designates a logger and none if it
\* does not.
C5_TelemetryIffLogger ==
    RunnerEnded =>
        Len(telemetry) = IF resolved.logger # None THEN 1 ELSE 0

\* C6: whenever telemetry emission is attempted, and so whenever it faults,
\* command.cleanup() has already been called exactly once.
C6_CleanupBeforeTelemetry ==
    \A i \in 1..Len(events) :
        events[i] = "telemetry" =>
            Count(SubSeq(events, 1, i - 1), "cleanup") = 1

\* Telemetry emission faulted, after cleanup had been called.
C6_Witness ==
    /\ pc = "runner_raised"
    /\ Len(events) > 0
    /\ events[Len(events)] = "telemetry"
    /\ raised \in Raisable
    /\ Count(events, "cleanup") = 1

\* ----------------------------------------------- properties of the resolver

\* _create_configuration_with_retry has ended: it returned, or it raised.
ResolverEnded == pc \in {"resolved", "resolve_raised"}

\* The i-th create_configuration call returned a configuration.
Built(i) == Len(buildCalls) >= i /\ buildCalls[i].result # NoConfiguration

\* The i-th candidate has a source directory or a target.
HasDirectoryOrTarget(i) ==
    \/ buildCalls[i].result.source_directories # {}
    \/ buildCalls[i].result.targets # {}

\* C7: a call whose first candidate has a source directory or a target
\* returns that candidate as built, builds once, and neither reads the cache
\* nor prompts (nor warns).
C7_FastPath ==
    (Built(1) /\ HasDirectoryOrTarget(1) /\ pc # "retry_check") =>
        /\ pc = "resolved"
        /\ resolved = buildCalls[1].result
        /\ Len(buildCalls) = 1
        /\ buildCalls[1].arguments = arguments
        /\ cacheReads = 0
        /\ promptCalls = 0
        /\ log = <<>>

\* The first candidate had a target and no source directory, and was returned
\* although the cache held roots.
C7_Witness ==
    /\ pc = "resolved"
    /\ Built(1)
    /\ buildCalls[1].result.source_directories = {}
    /\ buildCalls[1].result.targets # {}
    /\ resolved = buildCalls[1].result
    /\ Len(recent_roots) > 0

\* The case of C8: the first candidate had neither directory nor target, the
\* cache was not empty and the operator selected a root.
RootSelected ==
    /\ Built(1)
    /\ ~HasDirectoryOrTarget(1)
    /\ Len(recent_roots) > 0
    /\ promptCalls > 0
    /\ local_root_for_rerun # None

\* C8 as stated: with a first candidate that is not actionable, a non-empty
\* cache and a selected root R, the call returns a configuration built from
\* the arguments with the local root overridden to R, after at most two builds
\* and one prompt. (Stated for the calls in which every build returned.)
C8_ReturnsRetried ==
    (ResolverEnded /\ RootSelected /\ Built(2)) =>
        /\ pc = "resolved"
        /\ resolved = buildCalls[2].result
        /\ buildCalls[2].arguments =
              [arguments EXCEPT !.local_configuration = local_root_for_rerun]
        /\ Len(buildCalls) <= 2
        /\ promptCalls <= 1

\* C8 amended: in that case the call builds exactly once more, from the
\* arguments with only the local root overridden to R, and prompts once; it
\* returns the retried candidate when that candidate has a source directory
\* or a target, and otherwise raises (the retried candidate is not
\* actionable, or the second build itself raised).
C8_RetriesOnce ==
    (ResolverEnded /\ RootSelected) =>
        /\ Len(buildCalls) = 2
        /\ promptCalls = 1
        /\ cacheReads = 1
        /\ buildCalls[1].arguments = arguments
        /\ buildCalls[2].arguments =
              [arguments EXCEPT !.local_configuration = local_root_for_rerun]
        /\ IF Built(2) /\ HasDirectoryOrTarget(2)
           THEN /\ pc = "resolved"
                /\ resolved = buildCalls[2].result
           ELSE /\ pc = "resolve_raised"
                /\ resolved = NoConfiguration

\* The cache held /repo/a only, it was selected, and the configuration
\* returned has it as local root.
C8_Witness ==
    /\ pc = "resolved"
    /\ RootSelected
    /\ recent_roots = <<"/repo/a">>
    /\ arguments.local_configuration = None
    /\ Len(buildCalls) = 2
    /\ resolved.local_root = "/repo/a"

\* The two situations of C9.
EmptyCacheCase ==
    Built(1) /\ ~HasDirectoryOrTarget(1) /\ cacheReads = 1 /\ Len(recent_roots) = 0
RetryNotActionableCase ==
    local_root_for_rerun # None /\ Built(2) /\ ~HasDirectoryOrTarget(2)

\* C9: the call fails with InvalidConfiguration("No buck targets or source
\* directories to analyze.") exactly when the first candidate is not
\* actionable and the cache is empty, and then without a prompt, or when a
\* root was selected and the retried candidate is not actionable either.
C9_NoTargetsError ==
    ResolverEnded =>
        /\ (pc = "resolve_raised"
            /\ raised.type = InvalidConfiguration
            /\ raised.msg = "No buck targets or source directories to analyze.")
           <=> (EmptyCacheCase \/ RetryNotActionableCase)
        /\ EmptyCacheCase => promptCalls = 0 /\ Len(buildCalls) = 1

\* The call failed with that message after a root was selected.
C9_Witness ==
    /\ pc = "resolve_raised"
    /\ RetryNotActionableCase
    /\ raised.msg = "No buck targets or source directories to analyze."

\* C10: when the prompt yields no selection the call fails with
\* InvalidConfiguration, its message is not the empty-cache message, and no
\* second configuration is built.
C10_NoSelection ==
    (promptCalls > 0 /\ local_root_for_rerun = None) =>
        /\ pc = "resolve_raised"
        /\ raised.type = InvalidConfiguration
        /\ raised.msg # "No buck targets or source directories to analyze."
        /\ Len(buildCalls) = 1
        /\ promptCalls = 1

\* The operator was shown two roots and selected none.
C10_Witness ==
    /\ pc = "resolve_raised"
    /\ promptCalls = 1
    /\ local_root_for_rerun = None
    /\ Len(recent_roots) = 2

\* ------------------------------------------------------ properties of main

\* The positions inside run_pyre_command.
RunnerPositions ==
    {"run_pyre_command", "check_nested", "start_logging", "run", "except",
     "finally_log", "finally_result", "finally_cleanup", "finally_statistics",
     "runner_return", "runner_returned", "runner_raised"}

\* Configuration resolution has failed with InvalidConfiguration.
ResolutionFailed ==
    pc = "resolve_raised" /\ raised.type = InvalidConfiguration

\* C11: when configuration resolution fails with InvalidConfiguration, main
\* returns CONFIGURATION_ERROR in its next step and nothing follows; as long
\* as no configuration was resolved no command exists, so run(), cleanup()
\* and the statistics logger are never called in that invocation.
C11_ConfigurationErrorAborts ==
    /\ [](resolved = NoConfiguration =>
            /\ pc \notin RunnerPositions
            /\ events = <<>>
            /\ telemetry = <<>>)
    /\ [][ResolutionFailed =>
            /\ pc' = "exited"
            /\ return_code' = CONFIGURATION_ERROR
            /\ resolved' = NoConfiguration
            /\ events' = <<>>
            /\ telemetry' = <<>>]_vars
    /\ [][pc # "exited"]_vars

\* main has returned CONFIGURATION_ERROR after the operator selected no root.
C11_Witness ==
    /\ pc = "exited"
    /\ return_code = CONFIGURATION_ERROR
    /\ resolved = NoConfiguration
    /\ promptCalls = 1
    /\ local_root_for_rerun = None
    /\ events = <<>>

\* check_nested_local_configuration raised InvalidConfiguration: the fault of
\* the guarded steps was raised before start_logging_to_directory was called.
NestedCheckViolated ==
    /\ guardedFault.type = InvalidConfiguration
    /\ Count(events, "check_nested") = 1
    /\ Count(events, "start_logging") = 0

\* C12: when the nested-local-configuration check at the start of
\* run_pyre_command raises InvalidConfiguration, the exit code of the
\* invocation is CONFIGURATION_ERROR.
C12_NestedCheckConfigurationError ==
    (pc = "exited" /\ NestedCheckViolated) => return_code = CONFIGURATION_ERROR

\* ------------------------------------------- more properties of the runner

IsErrorRecord(r) == r.level = "error"

\* The error-severity records of the log, in order.
ErrorLines == SelectSeq(log, IsErrorRecord)

\* The statement that logs the client exception has been passed.
PastFinallyLog ==
    pc \in {"finally_result", "finally_cleanup", "finally_statistics",
            "runner_return", "runner_returned", "runner_raised"}

\* The guarded steps raised a fault an except clause other than the one for
\* KeyboardInterrupt catches.
CaughtFault == guardedFault # NoException /\ IsException(guardedFault)

\* The text the claim expects in the log for a caught fault: the message of a
\* buck, environment or client exception, the trace of any other.
FaultText ==
    IF guardedFault.type \in {BuckException, EnvironmentException, ClientException}
    THEN [kind |-> "str", of |-> guardedFault.msg]
    ELSE [kind |-> "traceback", of |-> guardedFault.type]

\* Every "log_error" event precedes every "cleanup" event.
ErrorLoggedBeforeCleanup ==
    \A i, j \in 1..Len(events) :
        (events[i] = "log_error" /\ events[j] = "cleanup") => i < j

\* A normal return of command.run() or a caught KeyboardInterrupt leaves no
\* error line and an empty client-exception text.
QuietOutcomes ==
    (guardedFault = NoException \/ guardedFault.type = KeyboardInterrupt) =>
        /\ ErrorLines = <<>>
        /\ client_exception_message = [kind |-> "str", of |-> ""]

\* C13: every caught fault other than a user interruption leaves
\* exactly one error-severity log line carrying the fault's text, emitted
\* before cleanup; a normal return and a user interruption leave none and an
\* empty client-exception text.
C13_OneErrorLinePerFault ==
    PastFinallyLog =>
        /\ CaughtFault => ErrorLines = <<LogRecord("error", FaultText)>>
        /\ ErrorLoggedBeforeCleanup
        /\ QuietOutcomes


\* The guarded steps raised before command.run() was called.
FaultBeforeRun == guardedFault # NoException /\ Count(events, "run") = 0

\* C14: after the preamble of run_pyre_command the exit code is FAILURE
\* unless command.run() returned normally (its code), a buck exception was
\* caught (BUCK_ERROR) or a KeyboardInterrupt was caught (SUCCESS), and the
\* statistics carry that exit code; after a fault raised before command.run()
\* was reached, run() is never called and the exit code is SUCCESS only for
\* a KeyboardInterrupt.
C14_FailClosed ==
    /\ []((pc \in RunnerPositions /\ pc # "run_pyre_command") =>
            /\ exit_code \in ExitCode
            /\ exit_code # FAILURE =>
                  \/ guardedFault = NoException /\ reported = exit_code
                  \/ guardedFault.type = BuckException /\ exit_code = BUCK_ERROR
                  \/ guardedFault.type = KeyboardInterrupt /\ exit_code = SUCCESS
            /\ \A i \in 1..Len(telemetry) : telemetry[i].exit_code = exit_code
            /\ FaultBeforeRun =>
                  (exit_code = SUCCESS => guardedFault.type = KeyboardInterrupt))
    /\ [][FaultBeforeRun => Count(events', "run") = 0]_vars

\* start_logging_to_directory raised an environment exception, run() was
\* never called, and the call returned FAILURE after logging statistics.
C14_Witness ==
    /\ pc = "runner_returned"
    /\ guardedFault.type = EnvironmentException
    /\ Count(events, "start_logging") = 1
    /\ Count(events, "run") = 0
    /\ returned = FAILURE
    /\ Len(telemetry) = 1


\* C15: every record handed to the statistics logger names the command, its
\* client_exception is the text captured by the except clauses (empty if
\* none), its error_message is the error of command.result(), or None when
\* the result has no error or there is no result, and when the call returns
\* its exit_code is the code returned.
C15_TelemetryFields ==
    \A i \in 1..Len(telemetry) :
        /\ telemetry[i].command = entry
        /\ telemetry[i].client_exception =
              (IF CaughtFault THEN FaultText ELSE [kind |-> "str", of |-> ""])
        /\ result \in Results
        /\ telemetry[i].error_message =
              (IF result = NoResult THEN None ELSE result.error)
        /\ pc = "runner_returned" => telemetry[i].exit_code = returned

\* A run that ended with a buck exception and a result carrying an error
\* returned BUCK_ERROR after its record was logged.
C15_Witness ==
    /\ pc = "runner_returned"
    /\ returned = BUCK_ERROR
    /\ Len(telemetry) = 1
    /\ telemetry[1].error_message = "analysis error"
    /\ telemetry[1].client_exception = [kind |-> "str", of |-> "query failed"]


\* ------------------------------------------- more properties of the resolver

\* The call entered the fallback and found the cache non-empty.
EnteredFallback == cacheReads = 1 /\ Len(recent_roots) > 0

\* The log holds the hint that names the selected root.
HintGiven ==
    \E i \in 2..Len(log) :
        log[i] = [level |-> "warning", text |-> <<"Hint", local_root_for_rerun>>]

\* The log starts with the warning that says why the fallback is tried.
WhyGiven ==
    /\ Len(log) >= 1
    /\ log[1] = [level |-> "warning",
                 text |-> "No buck targets or source directories to analyze."]

\* C16: every call that entered the fallback with a non-empty cache, once it
\* has returned or raised, has warned why it is guessing (before the prompt)
\* and has given the hint that names the local root.
C16_BothWarnings ==
    (EnteredFallback /\ ResolverEnded) => WhyGiven /\ HintGiven

\* C16: a call that entered the fallback with a non-empty cache has warned
\* why it is guessing before it prompts; it gives the hint naming the
\* selected root, once, before the second build, exactly when the operator
\* selected a root; when no root is selected the call fails with only the
\* first warning logged.
C16_WarnsWhyAndHintsOnSelection ==
    /\ EnteredFallback => WhyGiven
    /\ promptCalls > 0 => EnteredFallback
    /\ (EnteredFallback /\ ResolverEnded) =>
          /\ promptCalls = 1
          /\ HintGiven <=> local_root_for_rerun # None
          /\ Len(log) = IF local_root_for_rerun # None THEN 3 ELSE 1
    /\ Len(buildCalls) = 2 => HintGiven
    /\ ~EnteredFallback => log = <<>>

\* A root was selected, both warnings were given and the retried candidate
\* was returned.
C16_Witness ==
    /\ pc = "resolved"
    /\ EnteredFallback
    /\ WhyGiven
    /\ HintGiven
    /\ resolved = new_configuration


\* ------------------------------------------------ more properties of main

\* The entry point has not yet built a configuration.
BeforeResolution == pc \in {"main", "retry_create", "direct_create"}

\* C17: kill, persistent, rage, servers and stop build their configuration
\* with exactly one create_configuration call on the stored arguments, never
\* read the cache and never prompt, and once that call returned they hand the
\* command to run_pyre_command whether or not the configuration has source
\* directories or targets; every other command resolves through
\* _create_configuration_with_retry: it reads the cache when the first
\* candidate has neither, and reaches run_pyre_command only with a
\* configuration that has one.
C17_DirectEntriesSkipFallback ==
    /\ [](entry \in DirectCommands =>
            /\ cacheReads = 0
            /\ promptCalls = 0
            /\ pc \notin {"retry_create", "retry_check", "retry_cache",
                          "retry_prompt", "retry_rerun", "retry_recheck"}
            /\ Len(buildCalls) = IF BeforeResolution THEN 0 ELSE 1
            /\ ~BeforeResolution => buildCalls[1].arguments = arguments
            /\ Built(1) => resolved = buildCalls[1].result /\ pc # "resolve_raised"
            /\ pc = "resolve_raised" => ~Built(1))
    /\ [][(entry \in DirectCommands /\ pc = "resolved") =>
              pc' = "run_pyre_command"]_vars
    /\ [](entry \in RetryCommands =>
            /\ pc # "direct_create"
            /\ ~BeforeResolution => Len(buildCalls) \in {1, 2}
            /\ (Built(1) /\ ~HasDirectoryOrTarget(1)
                  /\ pc \notin {"retry_check", "retry_cache"}) =>
                  /\ cacheReads = 1
                  /\ pc \notin RunnerPositions \/ Len(buildCalls) = 2
            /\ pc \in RunnerPositions =>
                  (resolved.source_directories # {} \/ resolved.targets # {}))

\* kill ran its command to the end with a configuration that has no source
\* directory and no target, without reading the cache.
C17_Witness ==
    /\ entry = "kill"
    /\ pc = "exited"
    /\ resolved # NoConfiguration
    /\ resolved.source_directories = {}
    /\ resolved.targets = {}
    /\ Count(events, "run") = 1
    /\ cacheReads = 0

====
